---------------------------- MODULE Spec2Model ----------------------------
(***************************************************************************)
(* A model of pydoof/__init__.py: the SearchEngine facade (item CRUD, feed *)
(* processing, data-type cache, identifier extraction) and the Item        *)
(* wrapper (a dict whose keys are also readable as attributes).            *)
(*                                                                         *)
(* Python values are tagged records, so that values of different Python    *)
(* types can be compared:                                                  *)
(*   None  [t |-> "None"]          bool  [t |-> "bool", b |-> TRUE]        *)
(*   int   [t |-> "int", i |-> 1]  str   [t |-> "str", s |-> <<"7","7">>]  *)
(*   list  [t |-> "list", els |-> <<...>>]                                 *)
(*   tuple [t |-> "tuple", els |-> <<...>>]                                *)
(*   dict  [t |-> "dict", kv |-> [key |-> value]]                          *)
(*   Item  [t |-> "Item", kv |-> [key |-> value]]   (type(x) is Item)      *)
(* A call ends in Return(value) or in Raise(exception name).               *)
(***************************************************************************)
EXTENDS Integers, Sequences, FiniteSets, TLC

VARIABLES
    API_KEY,      \* module global API_KEY: None or the configured key
    _datatypes,   \* self._datatypes of the one SearchEngine under test
    calls,        \* number of get_api_root() calls made so far
    fetches,      \* number of times get_datatypes stored a directory result
    reply_url,    \* the resource URL the server puts in its answers
    it,           \* the Item object under test
    lastOp,       \* name of the operation that ran last
    args,         \* its inputs (arguments and what the collaborators answered)
    ret           \* its outcome: Return(value) or Raise(exception)

vars == <<API_KEY, _datatypes, calls, fetches, reply_url, it, lastOp, args, ret>>

---------------------------------------------------------------------------
(* Python values and outcomes                                              *)

None == [t |-> "None"]
PyBool(b) == [t |-> "bool", b |-> b]
PyInt(i) == [t |-> "int", i |-> i]
PyStr(s) == [t |-> "str", s |-> s]
PyList(els) == [t |-> "list", els |-> els]
PyTuple(els) == [t |-> "tuple", els |-> els]
PyDict(kv) == [t |-> "dict", kv |-> kv]

Return(v) == [kind |-> "return", val |-> v]
Raise(e) == [kind |-> "raise", exc |-> e]

\* Python truth value, as used by `not x` and `x and y`.
Truthy(v) ==
    CASE v.t = "None" -> FALSE
      [] v.t = "bool" -> v.b
      [] v.t = "int" -> v.i # 0
      [] v.t = "str" -> Len(v.s) > 0
      [] v.t \in {"list", "tuple"} -> Len(v.els) > 0
      [] v.t \in {"dict", "Item"} -> DOMAIN v.kv # {}
      [] OTHER -> TRUE

\* The names a function body can see besides its own locals: what lines 1-36
\* and 276 bind at module level.
ModuleGlobals ==
    {"re", "json", "requests", "ManagementApiClient", "SearchApiClient",
     "API_KEY", "CLUSTER_REGION", "MANAGEMENT_DOMAIN", "SEARCH_DOMAIN",
     "MANAGEMENT_VERSION", "SEARCH_VERSION", "HTTPS", "SearchEngine", "Item"}

\* The builtins the file uses.
Builtins == {"map", "type", "dict", "list", "super", "None", "False", "True"}

\* Name lookup in a function body: locals, then module globals, then builtins;
\* a name bound nowhere raises NameError when it is evaluated.
Resolves(name, locals) == name \in locals \cup ModuleGlobals \cup Builtins

---------------------------------------------------------------------------
(* class Item(dict)                                                        *)

\* Attribute names found on the class Item or on its base dict; Python's
\* normal attribute lookup finds these before __getattr__ is consulted.
ItemMethods == {"__init__", "__getattr__", "__setattr__", "_hidrate"}
DictMethods ==
    {"clear", "copy", "fromkeys", "get", "has_key", "items", "iteritems",
     "iterkeys", "itervalues", "keys", "pop", "popitem", "setdefault",
     "update", "values", "__getitem__", "__setitem__"}
ClassAttrs == ItemMethods \cup DictMethods

BoundMethod(name) == [t |-> "method", name |-> name]

EmptyItem == [t |-> "Item", kv |-> <<>>]

\* dict.__setitem__, inherited: self[key] = value
__setitem__(self, key, value) ==
    [self EXCEPT !.kv = [k \in DOMAIN self.kv \cup {key} |->
                            IF k = key THEN value ELSE self.kv[k]]]

\* dict.__getitem__, inherited: self[key], KeyError when the key is absent
__getitem__(self, key) ==
    IF key \in DOMAIN self.kv THEN Return(self.kv[key]) ELSE Raise("KeyError")

\* Item.__getattr__(self, name): return self.__getitem__(name)
__getattr__(self, name) == __getitem__(self, name)

\* faulty variant: the write kept off the mapping, as object.__setattr__ would
__setattr__off_mapping(self, name, value) == self

\* Item.__setattr__(self, name, value): self.__setitem__(name, value)
__setattr__(self, name, value) == __setitem__(self, name, value)

\* The expression obj.name on an Item: a class attribute wins, and only a
\* failed normal lookup falls back to __getattr__ (the class defines
\* __getattr__, not __getattribute__; nothing ever reaches the instance
\* __dict__ because __setattr__ redirects every attribute write).
getattr(self, name) ==
    IF name \in ClassAttrs THEN Return(BoundMethod(name))
    ELSE __getattr__(self, name)

\* Item(initial_object) and Item._hidrate(obj), mutually recursive.  The
\* tests are type(x) == dict and type(x) == list: exact types, so an Item
\* (a subclass of dict) passes neither.
RECURSIVE Item__init__(_)
RECURSIVE _hidrate(_, _)

_hidrate(self, obj) ==
    [self EXCEPT !.kv = [key \in DOMAIN self.kv \cup DOMAIN obj.kv |->
        IF key \in DOMAIN obj.kv
        THEN LET value == obj.kv[key]
             IN  IF value.t = "dict" THEN Item__init__(value)
                 ELSE IF value.t = "list"
                 THEN PyList([i \in 1..Len(value.els) |->
                          IF value.els[i].t = "dict"
                          THEN Item__init__(value.els[i])
                          ELSE value.els[i]])
                 ELSE value
        ELSE self.kv[key]]]

Item__init__(initial_object) ==
    IF initial_object.t = "dict" THEN _hidrate(EmptyItem, initial_object)
    ELSE EmptyItem

---------------------------------------------------------------------------
(* SearchEngine._obtain_id: the regular expression of line 271             *)
(*   /(?P<hashid>\w{32})/(items/\w+|tasks)/(?P<id>[\w-]+)/?$               *)
(* A URL is a sequence of one-character strings.                           *)

Lower ==
    {"a", "b", "c", "d", "e", "f", "g", "h", "i", "j", "k", "l", "m", "n",
     "o", "p", "q", "r", "s", "t", "u", "v", "w", "x", "y", "z"}
Upper ==
    {"A", "B", "C", "D", "E", "F", "G", "H", "I", "J", "K", "L", "M", "N",
     "O", "P", "Q", "R", "S", "T", "U", "V", "W", "X", "Y", "Z"}
Digit == {"0", "1", "2", "3", "4", "5", "6", "7", "8", "9"}

\* \w without re.UNICODE or re.LOCALE: [a-zA-Z0-9_]
WordChar == Lower \cup Upper \cup Digit \cup {"_"}
\* [\w-]
IdChar == WordChar \cup {"-"}

\* \w{32}
HashLen == 32

\* s[from..] starts with the literal lit
StartsAt(s, from, lit) ==
    /\ from + Len(lit) - 1 <= Len(s)
    /\ \A k \in 1..Len(lit) : s[from + k - 1] = lit[k]

\* Greedy C+ from position from: the position after the longest run of
\* characters of class C (from itself when the run is empty).  The pattern
\* follows each + by a character outside the class (or by the end), so no
\* shorter run can match and backtracking never changes the result.
RECURSIVE RunEnd(_, _, _)
RunEnd(s, from, C) ==
    IF from <= Len(s) /\ s[from] \in C THEN RunEnd(s, from + 1, C) ELSE from

\* $ without re.MULTILINE: the end of the string, or just before a newline
\* that is the last character of the string.
AtDollar(s, pos) ==
    \/ pos = Len(s) + 1
    \/ pos = Len(s) /\ s[pos] = "\n"

\* faulty variant: the pattern without its optional slash: $ at position pos
SlashDollar_without_slash(s, pos) == AtDollar(s, pos)

\* /?$ at position pos
SlashDollar(s, pos) ==
    \/ AtDollar(s, pos)
    \/ pos <= Len(s) /\ s[pos] = "/" /\ AtDollar(s, pos + 1)

\* (?P<id>[\w-]+)/?$ at position pos: the group's end + 1, or 0 for no match
IdGroupEnd(s, pos) ==
    LET e == RunEnd(s, pos, IdChar)
    IN  IF e > pos /\ SlashDollar(s, e) THEN e ELSE 0

\* (items/\w+|tasks)/ at position pos: the position after it, or 0
KindEnd(s, pos) ==
    IF StartsAt(s, pos, <<"i", "t", "e", "m", "s", "/">>)
    THEN LET e == RunEnd(s, pos + 6, WordChar)
         IN  IF e > pos + 6 /\ StartsAt(s, e, <<"/">>) THEN e + 1 ELSE 0
    ELSE IF StartsAt(s, pos, <<"t", "a", "s", "k", "s", "/">>) THEN pos + 6
    ELSE 0

\* The whole pattern tried at position i: the id group as <<first, last>>,
\* or <<>> when the pattern does not match there.
MatchAt(s, i) ==
    IF /\ StartsAt(s, i, <<"/">>)
       /\ i + HashLen <= Len(s)
       /\ \A k \in 1..HashLen : s[i + k] \in WordChar
       /\ StartsAt(s, i + HashLen + 1, <<"/">>)
    THEN LET p == KindEnd(s, i + HashLen + 2)
             e == IF p = 0 THEN 0 ELSE IdGroupEnd(s, p)
         IN  IF e = 0 THEN <<>> ELSE <<p, e - 1>>
    ELSE <<>>

\* url_re.search(url): the match at the leftmost position that has one, as
\* its id group, or None.
re_search(url) ==
    LET starts == {i \in 1..Len(url) : MatchAt(url, i) # <<>>}
    IN  IF starts = {} THEN None
        ELSE LET i == CHOOSE j \in starts : \A k \in starts : j <= k
                 g == MatchAt(url, i)
             IN  [t |-> "match", id |-> SubSeq(url, g[1], g[2])]

\* _obtain_id(self, url): url_re.search(url).groupdict()['id']; when search
\* returns None, None.groupdict raises AttributeError.
_obtain_id(url) ==
    LET m == re_search(url)
    IN  IF m.t = "None" THEN Raise("AttributeError") ELSE Return(PyStr(m.id))

---------------------------------------------------------------------------
(* The collaborators (pydoof.management, pydoof.search) and the server     *)

\* requests.codes, as the file names them
OK == 200
CREATED == 201
NO_CONTENT == 204

\* the status codes a management call may hand back
StatusCodes == {200, 201, 204, 404}

\* self.hashid of the engine under test, and the directory's hashids
Hashid == "h1"
Hashids == {"h1", "h2"}

\* props['items'] of a directory entry: a dict, kept as its keys in iteration
\* order (its values are never read)
ItemsMaps == {<<>>, <<"product">>, <<"product", "page">>}

DirectoryEntry(h, its) ==
    [hashid |-> h, props |-> [name |-> PyStr(h), items |-> its]]

\* A directory response: a dict hashid -> props, kept as its (hashid, props)
\* pairs in iteration order.
Directories ==
    {<<>>}
    \cup {<<DirectoryEntry(h, i)>> : h \in Hashids, i \in ItemsMaps}
    \cup {d \in {<<DirectoryEntry(h1, i1), DirectoryEntry(h2, i2)>> :
                    h1 \in Hashids, h2 \in Hashids,
                    i1 \in ItemsMaps, i2 \in ItemsMaps} :
            d[1].hashid # d[2].hashid}

\* ManagementApiClient.get_api_root(): the directory, or an error
get_api_root == {Return(d) : d \in Directories} \cup {Raise("NotAllowed")}

\* ManagementApiClient.management_api_call(...): a result holding the
\* status code and the parsed body, or an error
management_api_call(statuses, responses) ==
    {Return([status_code |-> c, response |-> r]) :
        c \in statuses, r \in responses}
    \cup {Raise("WrongResponse")}

\* SearchApiClient.search_api_call(...)
search_api_call(responses) ==
    {Return([response |-> r]) : r \in responses} \cup {Raise("BadRequest")}

\* d.keys() of a dict kept as its keys in iteration order
keys(itemsMap) == PyList([i \in 1..Len(itemsMap) |-> PyStr(itemsMap[i])])

\* URLs the server may answer with, assembled from parts
H32 == <<"a", "b", "c", "d", "e", "f", "a", "b", "c", "d", "e", "f", "a", "b", "c", "d", "e", "f", "a", "b", "c", "d", "e", "f", "a", "b", "c", "d", "e", "f", "1", "2">>
Hashes ==
    {H32, SubSeq(H32, 1, HashLen - 1), H32 \o <<"3">>,
     SubSeq(H32, 1, HashLen - 1) \o <<"-">>}
UrlPrefixes ==
    {<<>>, <<"h", "t", "t", "p", "s", ":", "/", "/", "x">>,
     <<"h", "t", "t", "p", "s", ":", "/", "/", "x", "/">> \o H32 \o <<"/", "t", "a", "s", "k", "s", "/", "5">>}
UrlKinds ==
    {<<"i", "t", "e", "m", "s", "/", "p", "r", "o", "d", "u", "c", "t">>,
     <<"i", "t", "e", "m", "s", "/", "m", "y", "-", "t", "y", "p", "e">>,
     <<"i", "t", "e", "m", "s">>, <<"t", "a", "s", "k", "s">>, <<"t", "a", "s", "k">>}
UrlIds == {<<"9", "9">>, <<"a", "-", "b">>, <<"9", ".", "9">>, <<>>}
UrlTails == {<<>>, <<"/">>, <<"/", "/">>, <<"\n">>, <<"/", "\n">>}
Urls ==
    {p \o <<"/">> \o h \o <<"/">> \o k \o <<"/">> \o i \o t :
        p \in UrlPrefixes, h \in Hashes, k \in UrlKinds, i \in UrlIds,
        t \in UrlTails}

\* the answers of a well-behaved server, and two that are not resource URLs
SampleUrls ==
    {<<"h", "t", "t", "p", "s", ":", "/", "/", "x", "/">> \o H32 \o <<"/", "i", "t", "e", "m", "s", "/", "p", "r", "o", "d", "u", "c", "t", "/", "9", "9">>,
     <<"h", "t", "t", "p", "s", ":", "/", "/", "x", "/">> \o H32 \o <<"/", "t", "a", "s", "k", "s", "/", "7", "7">>,
     <<"h", "t", "t", "p", "s", ":", "/", "/", "x", "/">> \o H32 \o <<"/", "t", "a", "s", "k", "s", "/", "7", "7", "/">>,
     <<"h", "t", "t", "p", "s", ":", "/", "/", "x", "/", "t", "a", "s", "k", "s", "/", "7", "7">>,
     <<>>}

\* item documents the server may hold
ItemDocs ==
    {PyDict(<<>>), PyDict([id |-> PyInt(1)]),
     PyDict([id |-> PyInt(1), categories |-> PyList(<<PyDict([id |-> PyInt(1)])>>)])}

\* task status documents and log lists, returned verbatim
TaskDocs == {PyDict([state |-> PyStr("PROCESSING")]), PyDict([state |-> PyStr("SUCCESS")])}

---------------------------------------------------------------------------
(* class SearchEngine                                                      *)

\* SearchEngine.__init__(self, hashid, name=None, datatypes=None)
SearchEngine__init__(hashid, name, datatypes) ==
    [t |-> "SearchEngine", hashid |-> hashid, name |-> name,
     _datatypes |-> datatypes]

\* what the engine under test may have been constructed with
CtorDatatypes == {None, PyList(<<>>), PyList(<<PyStr("product")>>)}

\* cap on the directory calls of one behaviour
MaxCalls == 2

Engine == <<API_KEY, _datatypes, calls, fetches>>

\* SearchEngine.all(): a classmethod whose parameter is cls; its loop header
\* evaluates self.get_api_root().
all ==
    /\ IF Resolves("self", {"cls", "search_engines"})
       THEN /\ calls < MaxCalls
            /\ calls' = calls + 1
            /\ \E root \in get_api_root :
                /\ args' = [root |-> root]
                /\ ret' = IF root.kind = "raise" THEN root
                          ELSE Return(PyList([i \in 1..Len(root.val) |->
                                   SearchEngine__init__(
                                       root.val[i].hashid,
                                       root.val[i].props.name,
                                       keys(root.val[i].props.items))]))
       ELSE /\ calls' = calls
            /\ args' = [cls |-> "SearchEngine"]
            /\ ret' = Raise("NameError")
    /\ lastOp' = "all"
    /\ UNCHANGED <<API_KEY, _datatypes, fetches, reply_url, it>>

\* faulty variant: the test without its API_KEY half
MustFetch_without_key == ~Truthy(_datatypes)

\* faulty variant: the test without its cache half
MustFetch_without_cache == Truthy(API_KEY)

\* the test of get_datatypes: not self._datatypes and API_KEY
MustFetch == ~Truthy(_datatypes) /\ Truthy(API_KEY)

\* SearchEngine.get_datatypes()
get_datatypes ==
    /\ lastOp' = "get_datatypes"
    /\ IF MustFetch
       THEN /\ calls < MaxCalls
            /\ calls' = calls + 1
            /\ \E root \in get_api_root :
                /\ args' = [fetched |-> TRUE, again |-> lastOp = "get_datatypes",
                            root |-> root]
                /\ IF root.kind = "raise"
                   THEN /\ ret' = root
                        /\ UNCHANGED <<_datatypes, fetches>>
                   ELSE IF Len(root.val) = 0
                   THEN /\ ret' = Raise("IndexError")
                        /\ UNCHANGED <<_datatypes, fetches>>
                   ELSE /\ _datatypes' = keys(root.val[1].props.items)
                        /\ fetches' = fetches + 1
                        /\ ret' = Return(_datatypes')
       ELSE /\ args' = [fetched |-> FALSE, again |-> lastOp = "get_datatypes"]
            /\ ret' = Return(_datatypes)
            /\ UNCHANGED <<_datatypes, calls, fetches>>
    /\ UNCHANGED <<API_KEY, reply_url, it>>

\* SearchEngine.items(item_type, page=1)
items ==
    /\ lastOp' = "items"
    /\ \E result \in management_api_call({OK},
                        {[results |-> <<>>]} \cup
                        {[results |-> <<d>>] : d \in ItemDocs} \cup
                        {[results |-> <<d, e>>] : d \in ItemDocs, e \in ItemDocs}) :
        /\ args' = [result |-> result]
        /\ ret' = IF result.kind = "raise" THEN result
                  ELSE LET results == result.val.response.results
                       IN  Return(PyList([i \in 1..Len(results) |->
                                              Item__init__(results[i])]))
    /\ UNCHANGED <<Engine, reply_url, it>>

\* SearchEngine.get_item(item_type, item_id)
get_item ==
    /\ lastOp' = "get_item"
    /\ \E result \in management_api_call({OK}, ItemDocs) :
        /\ args' = [result |-> result]
        /\ ret' = IF result.kind = "raise" THEN result
                  ELSE Return(Item__init__(result.val.response))
    /\ UNCHANGED <<Engine, reply_url, it>>

\* SearchEngine.add_item(item_type, item_description)
add_item ==
    /\ lastOp' = "add_item"
    /\ \E result \in management_api_call({CREATED}, {[url |-> reply_url]}) :
        /\ args' = [result |-> result]
        /\ ret' = IF result.kind = "raise" THEN result
                  ELSE _obtain_id(result.val.response.url)
    /\ UNCHANGED <<Engine, reply_url, it>>

\* SearchEngine.update_item(item_type, item_id, item_description): the body
\* assigns result and ends, so the call returns None.
update_item ==
    /\ lastOp' = "update_item"
    /\ \E result \in management_api_call(StatusCodes, ItemDocs) :
        /\ args' = [result |-> result]
        /\ ret' = IF result.kind = "raise" THEN result ELSE Return(None)
    /\ UNCHANGED <<Engine, reply_url, it>>

\* faulty variant: every 2xx status taken for success
DeleteResult_any_2xx(result) ==
    IF result.val.status_code >= 200 /\ result.val.status_code < 300
    THEN Return(PyBool(TRUE))
    ELSE Return(PyBool(FALSE))

\* the if/else that ends delete_item
DeleteResult(result) ==
    IF result.val.status_code = NO_CONTENT
    THEN Return(PyBool(TRUE))
    ELSE Return(PyBool(FALSE))

\* SearchEngine.delete_item(item_type, item_id)
delete_item ==
    /\ lastOp' = "delete_item"
    /\ \E result \in management_api_call(StatusCodes, {None}) :
        /\ args' = [result |-> result]
        /\ ret' = IF result.kind = "raise" THEN result
                  ELSE DeleteResult(result)
    /\ UNCHANGED <<Engine, reply_url, it>>

\* (flag, self._obtain_id(link)) of process()
ProcessResult(flag, link) ==
    LET id == _obtain_id(link)
    IN  IF id.kind = "raise" THEN id
        ELSE Return(PyTuple(<<PyBool(flag), id.val>>))

\* SearchEngine.process(): the second test reads request.codes.OK, and the
\* module imports requests.
process ==
    /\ lastOp' = "process"
    /\ \E result \in management_api_call(StatusCodes, {[link |-> reply_url]}) :
        /\ args' = [result |-> result]
        /\ ret' = IF result.kind = "raise" THEN result
                  ELSE IF result.val.status_code = CREATED
                  THEN ProcessResult(TRUE, result.val.response.link)
                  ELSE IF ~Resolves("request", {"self", "result"})
                  THEN Raise("NameError")
                  ELSE IF result.val.status_code = OK
                  THEN ProcessResult(FALSE, result.val.response.link)
                  ELSE Return(None)
    /\ UNCHANGED <<Engine, reply_url, it>>

\* SearchEngine.info(task_id)
info ==
    /\ lastOp' = "info"
    /\ \E result \in management_api_call({OK}, TaskDocs) :
        /\ args' = [result |-> result]
        /\ ret' = IF result.kind = "raise" THEN result
                  ELSE Return(result.val.response)
    /\ UNCHANGED <<Engine, reply_url, it>>

\* SearchEngine.logs()
logs ==
    /\ lastOp' = "logs"
    /\ \E result \in management_api_call({OK}, {PyList(<<>>), PyList(<<PyDict([level |-> PyStr("ERROR")])>>)}) :
        /\ args' = [result |-> result]
        /\ ret' = IF result.kind = "raise" THEN result
                  ELSE Return(result.val.response)
    /\ UNCHANGED <<Engine, reply_url, it>>

\* SearchEngine.query(query_term, page=1, filters=None, query_name=None)
query ==
    /\ lastOp' = "query"
    /\ \E response \in search_api_call(ItemDocs) :
        /\ args' = [result |-> response]
        /\ ret' = IF response.kind = "raise" THEN response
                  ELSE Return(response.val.response)
    /\ UNCHANGED <<Engine, reply_url, it>>

\* After construction: API_KEY as configured, the engine as constructed,
\* it = Item().
Init ==
    /\ API_KEY \in {None, PyStr("b42e3ea7-eu1")}
    /\ _datatypes \in CtorDatatypes
    /\ calls = 0
    /\ fetches = 0
    /\ reply_url \in SampleUrls
    /\ it = Item__init__(None)
    /\ lastOp = "init"
    /\ args = <<>>
    /\ ret = Return(None)

Next ==
    \/ all
    \/ get_datatypes
    \/ items
    \/ get_item
    \/ add_item
    \/ update_item
    \/ delete_item
    \/ process
    \/ info
    \/ logs
    \/ query

Spec == Init /\ [][Next]_vars

\* Identifier extraction over the whole URL universe: one engine, the URL
\* of the server's answer drawn from Urls, and the two operations that
\* extract an identifier from it.
InitUrl ==
    /\ API_KEY = PyStr("b42e3ea7-eu1")
    /\ _datatypes = None
    /\ calls = 0
    /\ fetches = 0
    /\ reply_url \in Urls
    /\ it = Item__init__(None)
    /\ lastOp = "init"
    /\ args = <<>>
    /\ ret = Return(None)

NextUrl ==
    \/ add_item
    \/ process

SpecUrl == InitUrl /\ [][NextUrl]_vars

---------------------------------------------------------------------------
(* Item objects in use                                                     *)

\* keys and attribute names used by the callers; "items" is the key the
\* directory documents use, and also the name of a dict method
Keys == {"a", "items"}

\* longest list among the values
MaxLen == 2

\* all dicts with keys in K and values in V
Maps(K, V) == UNION {[D -> V] : D \in SUBSET K}

FlatValues == {PyInt(1), PyDict(<<>>)}
FlatDicts == {PyDict(f) : f \in Maps(Keys, FlatValues)}
ListElems == {PyInt(1), PyDict([a |-> PyInt(1)]), Item__init__(PyDict([a |-> PyInt(1)]))}
Lists == UNION {{PyList(l) : l \in [1..n -> ListElems]} : n \in 0..MaxLen}
FlatItems == {Item__init__(d) : d \in FlatDicts}
Level1 == {PyInt(1)} \cup FlatDicts \cup FlatItems \cup Lists

\* what Item(...) is called with: nothing, a scalar, a list, a dict nested
\* up to three deep, or an Item made by an earlier Item(...)
InitialObjects ==
    {None} \cup Level1 \cup {PyDict(f) : f \in Maps(Keys, Level1)}

\* what the callers assign to fields and keys
WriteValues ==
    {PyInt(1), PyInt(2), PyDict([a |-> PyInt(1)]), PyList(<<PyDict(<<>>)>>)}

NotItem == <<API_KEY, _datatypes, calls, fetches, reply_url>>

\* Item(it): wrapping the record again
Item_call ==
    /\ lastOp' = "Item"
    /\ args' = [initial_object |-> it]
    /\ it' = Item__init__(it)
    /\ ret' = Return(None)
    /\ UNCHANGED NotItem

\* it.name = value
attr_write ==
    /\ lastOp' = "attr_write"
    /\ \E name \in Keys, value \in WriteValues :
        /\ args' = [name |-> name, value |-> value]
        /\ it' = __setattr__(it, name, value)
    /\ ret' = Return(None)
    /\ UNCHANGED NotItem

\* it[key] = value
key_write ==
    /\ lastOp' = "key_write"
    /\ \E key \in Keys, value \in WriteValues :
        /\ args' = [name |-> key, value |-> value]
        /\ it' = __setitem__(it, key, value)
    /\ ret' = Return(None)
    /\ UNCHANGED NotItem

\* it.name
attr_read ==
    /\ lastOp' = "attr_read"
    /\ \E name \in Keys :
        /\ args' = [name |-> name]
        /\ ret' = getattr(it, name)
    /\ UNCHANGED <<NotItem, it>>

\* it[key]
key_read ==
    /\ lastOp' = "key_read"
    /\ \E key \in Keys :
        /\ args' = [name |-> key]
        /\ ret' = __getitem__(it, key)
    /\ UNCHANGED <<NotItem, it>>

\* After it = Item(initial_object)
InitItem ==
    /\ API_KEY = None
    /\ _datatypes = None
    /\ calls = 0
    /\ fetches = 0
    /\ reply_url = <<>>
    /\ \E m \in InitialObjects :
        /\ args = [initial_object |-> m]
        /\ it = Item__init__(m)
    /\ lastOp = "Item"
    /\ ret = Return(None)

NextItem ==
    \/ Item_call
    \/ attr_write
    \/ key_write
    \/ attr_read
    \/ key_read

SpecItem == InitItem /\ [][NextItem]_vars

---------------------------------------------------------------------------
(* What the specification says of URLs and of wrapping, stated on its own  *)
(* terms: by the URL's segments, and by the shape of the wrapped value.    *)

\* position of the last "/" of s at or before upto, 0 when there is none
RECURSIVE LastSlash(_, _)
LastSlash(s, upto) ==
    IF upto <= 0 THEN 0
    ELSE IF s[upto] = "/" THEN upto ELSE LastSlash(s, upto - 1)

AllIn(s, C) == \A k \in 1..Len(s) : s[k] \in C

\* body ends in /<32 word characters>/items/<type>/<id> or in
\* /<32 word characters>/tasks/<id>: the <id>, as a set of at most one
ShapeIdsOf(body) ==
    LET n == Len(body)
        p3 == LastSlash(body, n)
        p2 == LastSlash(body, p3 - 1)
        p1 == LastSlash(body, p2 - 1)
        p0 == LastSlash(body, p1 - 1)
        id == SubSeq(body, p3 + 1, n)
        seg2 == SubSeq(body, p2 + 1, p3 - 1)
        seg1 == SubSeq(body, p1 + 1, p2 - 1)
        seg0 == SubSeq(body, p0 + 1, p1 - 1)
        hash(seg) == Len(seg) = 32 /\ AllIn(seg, WordChar)
        tasksForm == /\ p1 > 0
                     /\ seg2 = <<"t", "a", "s", "k", "s">>
                     /\ hash(seg1)
        itemsForm == /\ p0 > 0
                     /\ Len(seg2) > 0 /\ AllIn(seg2, WordChar)
                     /\ seg1 = <<"i", "t", "e", "m", "s">>
                     /\ hash(seg0)
    IN  IF p3 > 0 /\ Len(id) > 0 /\ AllIn(id, IdChar) /\ (tasksForm \/ itemsForm)
        THEN {id} ELSE {}

EndsWith(s, t) ==
    Len(t) <= Len(s) /\ SubSeq(s, Len(s) - Len(t) + 1, Len(s)) = t

\* the <id>s of url when it has the shape followed by one of tails
ShapeIds(url, tails) ==
    UNION {ShapeIdsOf(SubSeq(url, 1, Len(url) - Len(t))) :
              t \in {x \in tails : EndsWith(url, x)}}

\* "optionally followed by one trailing slash"
SlashTails == {<<>>, <<"/">>}
\* ... and then optionally by one final newline
SlashNewlineTails == SlashTails \cup {<<"\n">>, <<"/", "\n">>}

IsMapping(v) == v.t \in {"dict", "Item"}

\* the record the specification's wrap(m) describes
RECURSIVE Wrapped(_)
Wrapped(m) ==
    [t |-> "Item",
     kv |-> [k \in DOMAIN m.kv |->
                LET v == m.kv[k]
                IN  IF IsMapping(v) THEN Wrapped(v)
                    ELSE IF v.t = "list"
                    THEN PyList([i \in 1..Len(v.els) |->
                             IF IsMapping(v.els[i]) THEN Wrapped(v.els[i])
                             ELSE v.els[i]])
                    ELSE v]]

\* the engines all() is to return for a directory
EnginesOf(directory) ==
    PyList([i \in 1..Len(directory) |->
        [t |-> "SearchEngine", hashid |-> directory[i].hashid,
         name |-> directory[i].props.name,
         _datatypes |-> keys(directory[i].props.items)]])

---------------------------------------------------------------------------
(* The claims                                                              *)

\* C1: whenever the management call hands delete_item a status code, the
\* call returns True if that status is 204 (No Content) and False for every
\* other status; it does not raise.
C1_DeleteTrueIffNoContent ==
    (lastOp = "delete_item" /\ args.result.kind = "return")
        => ret = Return(PyBool(args.result.val.status_code = 204))

\* C1 witness: a delete answered 200 OK has returned False.
C1_Witness ==
    /\ lastOp = "delete_item"
    /\ args.result.kind = "return"
    /\ args.result.val.status_code = 200
    /\ ret = Return(PyBool(FALSE))

\* C2 as claimed: process() returns (True, id) on status 201 and (False, id)
\* on status 200, id being the id segment of the response's link.
C2_AsClaimed ==
    (/\ lastOp = "process"
     /\ args.result.kind = "return"
     /\ args.result.val.status_code \in {200, 201}
     /\ ShapeIds(args.result.val.response.link, SlashTails) # {})
        => ret \in {Return(PyTuple(<<PyBool(args.result.val.status_code = 201),
                                      PyStr(i)>>)) :
                       i \in ShapeIds(args.result.val.response.link, SlashTails)}

\* C3 as claimed: wrapping an already wrapped record gives a record with the
\* same keys and values.
C3_AsClaimed ==
    (lastOp = "Item" /\ args.initial_object.t = "Item")
        => it = args.initial_object

\* C4: with no API key configured and an engine constructed without
\* datatypes, every get_datatypes() call returns None, raises nothing and
\* makes no directory call.
C4_NoKeyNoDirectoryCall ==
    (lastOp = "get_datatypes" /\ ~Truthy(API_KEY) /\ _datatypes = None)
        => /\ ret = Return(None)
           /\ ~args.fetched
           /\ calls = 0

\* C4 witness: a second consecutive get_datatypes() without a key has
\* returned None.
C4_Witness ==
    /\ lastOp = "get_datatypes"
    /\ args.again
    /\ API_KEY = None
    /\ _datatypes = None
    /\ ret = Return(None)

\* C5 as claimed: with a credential, all() returns the list holding one
\* SearchEngine per directory entry (hashid, name, data types).
C5_AsClaimed ==
    (lastOp = "all" /\ Truthy(API_KEY))
        => ret \in {Return(EnginesOf(d)) : d \in Directories}

\* C6 as claimed: update_item returns True when the PUT succeeds.
C6_AsClaimed ==
    (/\ lastOp = "update_item"
     /\ args.result.kind = "return"
     /\ args.result.val.status_code = 200)
        => ret = Return(PyBool(TRUE))

\* C7 as claimed: add_item returns the <id> of a URL that has the shape,
\* optionally followed by one slash, and fails on every other URL.
C7_AsClaimed ==
    (lastOp = "add_item" /\ args.result.kind = "return")
        => LET ids == ShapeIds(args.result.val.response.url, SlashTails)
           IN  IF ids = {} THEN ret.kind = "raise"
               ELSE ret \in {Return(PyStr(i)) : i \in ids}

\* C7, amended: add_item returns the <id> of a URL that has the shape,
\* optionally followed by one slash and then optionally by one final
\* newline, and fails on every other URL.
C7_IdOfShapedUrl ==
    (lastOp = "add_item" /\ args.result.kind = "return")
        => LET ids == ShapeIds(args.result.val.response.url, SlashNewlineTails)
           IN  IF ids = {} THEN ret.kind = "raise"
               ELSE ret \in {Return(PyStr(i)) : i \in ids}

\* C7 witness: add_item has returned "a-b" for a URL that ends in a slash.
C7_Witness ==
    /\ lastOp = "add_item"
    /\ args.result.kind = "return"
    /\ EndsWith(args.result.val.response.url, <<"b", "/">>)
    /\ ret = Return(PyStr(<<"a", "-", "b">>))

\* C8 as claimed: a value written by field name or by key is stored under
\* that key, and a read by field name or by key gives the stored value, or
\* KeyError when the key is absent.
C8_AsClaimed ==
    /\ lastOp \in {"attr_write", "key_write"}
        => /\ args.name \in DOMAIN it.kv
           /\ it.kv[args.name] = args.value
    /\ lastOp \in {"attr_read", "key_read"}
        => ret = IF args.name \in DOMAIN it.kv
                 THEN Return(it.kv[args.name]) ELSE Raise("KeyError")

\* C8, amended: the same, for reads by field name only when the name is not
\* an attribute of the class (a method of dict or of Item).
C8_FieldIsKey ==
    /\ lastOp \in {"attr_write", "key_write"}
        => /\ args.name \in DOMAIN it.kv
           /\ it.kv[args.name] = args.value
    /\ (lastOp = "key_read" \/ (lastOp = "attr_read" /\ args.name \notin ClassAttrs))
        => ret = IF args.name \in DOMAIN it.kv
                 THEN Return(it.kv[args.name]) ELSE Raise("KeyError")

\* C8 witness: a read by field name has returned 2, a value only a write
\* stores.
C8_Witness ==
    /\ lastOp = "attr_read"
    /\ args.name = "a"
    /\ ret = Return(PyInt(2))

\* C9 as claimed: for every mapping m, Item(m) has the keys of m, with each
\* mapping value wrapped recursively, each mapping element of a list value
\* wrapped recursively, and every other value unchanged.
C9_AsClaimed ==
    (lastOp = "Item" /\ IsMapping(args.initial_object))
        => it = Wrapped(args.initial_object)

\* C10 as claimed: the cache is populated from the directory at most once.
C10_AsClaimed == fetches <= 1

\* C10, amended: a directory call is made only by get_datatypes(), and only
\* when a key is configured and the cached value is absent or empty; a
\* successful one caches the data types of the first directory entry; once
\* the cached list is non-empty every get_datatypes() returns it and no step
\* makes a directory call or changes the cache.
C10_CacheKeptOnceNonEmpty ==
    [][/\ calls' # calls
           => /\ lastOp' = "get_datatypes"
              /\ calls' = calls + 1
              /\ Truthy(API_KEY)
              /\ ~Truthy(_datatypes)
       /\ _datatypes' # _datatypes
           => /\ calls' # calls
              /\ args'.root.kind = "return"
              /\ _datatypes' = keys(args'.root.val[1].props.items)
       /\ Truthy(_datatypes)
           => /\ calls' = calls
              /\ _datatypes' = _datatypes
              /\ lastOp' = "get_datatypes" => ret' = Return(_datatypes)
      ]_vars

\* C10 witness: after one directory call, a later get_datatypes() has
\* returned the cached list without another.
C10_Witness ==
    /\ lastOp = "get_datatypes"
    /\ ~args.fetched
    /\ Truthy(API_KEY)
    /\ calls = 1
    /\ fetches = 1
    /\ Truthy(_datatypes)
    /\ ret = Return(_datatypes)

=============================================================================
